---- MODULE Spec2Model ----
(***************************************************************************)
(* Model of the signal detectors of hackrf_monitor/detector.h              *)
(* (sSignalDetector::apply_detector, sSignalDetector_old::process_data).   *)
(*                                                                         *)
(* float/double values are modelled as exact rationals extended with the   *)
(* IEEE-754 special values +inf, -inf and NaN, so that a division by zero  *)
(* gives what the hardware gives.  Rounding is not modelled: the power     *)
(* samples of the model are small integers, and every comparison the code  *)
(* makes on them is decided by a margin far above one float ulp.           *)
(***************************************************************************)
EXTENDS Integers, Sequences, FiniteSets, TLC

VARIABLES
    detector,             \* the sSignalDetector profile (its functional fields)
    detector_old,         \* the sSignalDetector_old profile
    power_array,          \* memory at power_array[0..]: the caller's array and what follows it
    length,               \* number of samples the caller's array really holds
    frequency_start_hz,
    frequency_step_hz,
    current_frequency_hz,
    res_power,            \* *res_power, the caller's variable
    res_bw,               \* *res_bw
    res_centroid,         \* *res_centroid
    ret,                  \* value returned by the last call
    ret_line,             \* source line of the return statement the last call left by (0: no call yet)
    reads,                \* indices of power_array the last call read
    loc,                  \* the locals of the last call when it returned
    calls,                \* number of calls the caller has made
    pc,                   \* "call": a call is about to be made, "done": it has returned
    \* scanner_sink
    m_vector_length,      \* size of the FFT
    m_avg_size,           \* number of FFTs averaged over
    m_step,               \* amount the frequency is incremented by
    m_start_freq,
    m_end_freq,
    m_sps,                \* samples per second
    m_buffer,             \* the totals accumulated for averaging, index 0..m_vector_length-1
    m_count,              \* number of FFTs totalled in the buffer
    m_wait_count,
    m_current_freq,
    tunable,              \* the frequencies m_source can be tuned to
    requested,            \* the frequencies passed to set_center_freq by the last ProcessVector
    shm_count,            \* i_shm[0]: number of spectra published in the shared memory
    shm_freqs,            \* the published freqs
    shm_bands,            \* the published bands0
    bands_writes,         \* number of writes of each index of bands0 by the last Rearrange
    vectors,              \* number of calls of ProcessVector
    cycle,                \* the input vectors totalled in m_buffer
    published_cycle       \* the input vectors of the cycle last published

vars == <<detector, detector_old, power_array, length, frequency_start_hz,
          frequency_step_hz, current_frequency_hz, res_power, res_bw,
          res_centroid, ret, ret_line, reads, loc, calls, pc,
          m_vector_length, m_avg_size, m_step, m_start_freq, m_end_freq, m_sps,
          m_buffer, m_count, m_wait_count, m_current_freq, tunable, requested,
          shm_count, shm_freqs, shm_bands, bands_writes, vectors, cycle,
          published_cycle>>

\* the variables of the scanner sink
sink_vars == <<m_vector_length, m_avg_size, m_step, m_start_freq, m_end_freq, m_sps,
               m_buffer, m_count, m_wait_count, m_current_freq, tunable, requested,
               shm_count, shm_freqs, shm_bands, bands_writes, vectors, cycle,
               published_cycle>>

\* no scanner sink constructed
NoSink ==
    /\ m_vector_length = 0 /\ m_avg_size = 0 /\ m_step = 0
    /\ m_start_freq = 0 /\ m_end_freq = 0 /\ m_sps = 0
    /\ m_buffer = <<>> /\ m_count = 0 /\ m_wait_count = 0 /\ m_current_freq = 0
    /\ tunable = {} /\ requested = <<>>
    /\ shm_count = 0 /\ shm_freqs = <<>> /\ shm_bands = <<>> /\ bands_writes = <<>>
    /\ vectors = 0 /\ cycle = <<>> /\ published_cycle = <<>>

-----------------------------------------------------------------------------
(* Bounds of the model *)

\* widest window of the three-zone model: center_width_kHz + 2*side_width_kHz
MaxWindowKHz == 5

\* detection thresholds 1..MaxThreshold dB
MaxThreshold == 2

\* calls the caller makes on one window
MaxCalls == 2

\* power samples (dB) of the arbitrary windows
Levels == {-2, -1, 1}

\* values of the memory cells that follow the caller's array
Beyond == {-2, 1}

\* frequency steps (Hz) of the spectrum
FrequencySteps == {1000, 1500}

-----------------------------------------------------------------------------
(* float arithmetic: exact rationals n/d (d > 0, lowest terms) and the     *)
(* IEEE special values                                                     *)

Abs(i) == IF i < 0 THEN -i ELSE i

RECURSIVE GCD(_, _)
GCD(a, b) == IF b = 0 THEN a ELSE GCD(b, a % b)

\* C conversion of the quotient n/d to int: truncation toward zero
Trunc(n, d) ==
    IF (n >= 0) = (d > 0) THEN Abs(n) \div Abs(d) ELSE -(Abs(n) \div Abs(d))

Fin(n, d) ==
    LET g == GCD(Abs(n), Abs(d))
        s == IF d < 0 THEN -1 ELSE 1
    IN  [k |-> "fin", n |-> s * (n \div g), d |-> s * (d \div g)]

FInt(i) == [k |-> "fin", n |-> i, d |-> 1]
NaN  == [k |-> "nan",  n |-> 0, d |-> 1]
PInf == [k |-> "pinf", n |-> 0, d |-> 1]
NInf == [k |-> "ninf", n |-> 0, d |-> 1]

\* an output variable the caller has not initialised and no call has written
Uninit == [k |-> "uninit", n |-> 0, d |-> 1]

IsFin(a) == a.k = "fin"
IsInf(a) == a.k \in {"pinf", "ninf"}

\* -1, 0, 1: the sign of a finite or infinite value
Sign(a) ==
    IF a.k = "pinf" THEN 1
    ELSE IF a.k = "ninf" THEN -1
    ELSE IF a.n > 0 THEN 1 ELSE IF a.n < 0 THEN -1 ELSE 0

InfOf(s) == IF s > 0 THEN PInf ELSE NInf

FNeg(a) ==
    IF a.k = "fin" THEN [k |-> "fin", n |-> -a.n, d |-> a.d]
    ELSE IF a.k = "pinf" THEN NInf
    ELSE IF a.k = "ninf" THEN PInf
    ELSE a

FAdd(a, b) ==
    IF ~(IsFin(a) \/ IsInf(a)) \/ ~(IsFin(b) \/ IsInf(b)) THEN NaN
    ELSE IF IsFin(a) /\ IsFin(b) THEN
        LET l == (a.d \div GCD(a.d, b.d)) * b.d
        IN  Fin(a.n * (l \div a.d) + b.n * (l \div b.d), l)
    ELSE IF IsFin(a) THEN b
    ELSE IF IsFin(b) THEN a
    ELSE IF a.k = b.k THEN a ELSE NaN

FSub(a, b) == FAdd(a, FNeg(b))

FMul(a, b) ==
    IF ~(IsFin(a) \/ IsInf(a)) \/ ~(IsFin(b) \/ IsInf(b)) THEN NaN
    ELSE IF IsFin(a) /\ IsFin(b) THEN
        LET g1 == GCD(Abs(a.n), b.d)
            g2 == GCD(Abs(b.n), a.d)
        IN  Fin((a.n \div g1) * (b.n \div g2), (a.d \div g2) * (b.d \div g1))
    ELSE IF Sign(a) = 0 \/ Sign(b) = 0 THEN NaN
    ELSE InfOf(Sign(a) * Sign(b))

\* IEEE division: x/0 is +inf or -inf by the sign of x, 0/0 is NaN
FDiv(a, b) ==
    IF ~(IsFin(a) \/ IsInf(a)) \/ ~(IsFin(b) \/ IsInf(b)) THEN NaN
    ELSE IF IsFin(a) /\ IsFin(b) THEN
        IF b.n = 0 THEN (IF a.n = 0 THEN NaN ELSE InfOf(a.n))
        ELSE FMul(a, Fin(b.d, b.n))
    ELSE IF IsInf(a) /\ IsInf(b) THEN NaN
    ELSE IF IsInf(a) THEN InfOf(Sign(a) * (IF Sign(b) < 0 THEN -1 ELSE 1))
    ELSE FInt(0)

\* a < b; false when either is NaN (or indeterminate)
FLt(a, b) ==
    IF ~(IsFin(a) \/ IsInf(a)) \/ ~(IsFin(b) \/ IsInf(b)) THEN FALSE
    ELSE IF IsFin(a) /\ IsFin(b) THEN a.n * b.d < b.n * a.d
    ELSE IF a.k = b.k THEN FALSE
    ELSE a.k = "ninf" \/ b.k = "pinf"

FGe(a, b) ==
    IF ~(IsFin(a) \/ IsInf(a)) \/ ~(IsFin(b) \/ IsInf(b)) THEN FALSE
    ELSE ~FLt(a, b)

FAbs(a) == IF IsInf(a) THEN PInf ELSE IF IsFin(a) /\ a.n < 0 THEN FNeg(a) ELSE a

IsZero(a) == IsFin(a) /\ a.n = 0

-----------------------------------------------------------------------------
(* sSignalDetector: the three-zone detector *)

\* the literal 0.000001 the exceedance counts left_z, right_z start from, as 1/EpsilonDen
EpsilonDen == 1000000

\* the literal 0.0001 stored in *res_bw when the center is below a side, as 1/NominalBwDen
NominalBwDen == 10000

\* int w = width_kHz * 1000.0 / frequency_step_hz
WidthPoints(width_kHz, step) == Trunc(width_kHz * 1000, step)

get_window_width_points(sd, step) ==
    Trunc((2 * sd.side_width_kHz + sd.center_width_kHz) * 1000, step)

\* int center_pos = (current_frequency_hz - frequency_start_hz) / frequency_step_hz
CenterPos(cur, start, step) == Trunc(cur - start, step)

\* sum of power_array[begin + x], x = 0..n-1
RECURSIVE SumFrom(_, _, _)
SumFrom(pa, begin, n) ==
    IF n <= 0 THEN 0 ELSE SumFrom(pa, begin, n - 1) + pa[begin + n - 1]

\* the mean of width samples from begin: level = sum / (float)width
BandMean(pa, begin, width) == FDiv(FInt(SumFrom(pa, begin, width)), FInt(width))

\* if(center_level < left_level || center_level < right_level)
CenterBelowSide(center_level, left_level, right_level) ==
    FLt(center_level, left_level) \/ FLt(center_level, right_level)

\* sum of the samples power_array[center_pos + dir*x], x = 0..n-1, that are > level
RECURSIVE ExceedSum(_, _, _, _, _)
ExceedSum(pa, center_pos, dir, level, n) ==
    IF n <= 0 THEN 0
    ELSE LET v == pa[center_pos + dir * (n - 1)]
         IN  ExceedSum(pa, center_pos, dir, level, n - 1)
               + (IF FLt(level, FInt(v)) THEN v ELSE 0)

\* number of those samples
RECURSIVE ExceedCount(_, _, _, _, _)
ExceedCount(pa, center_pos, dir, level, n) ==
    IF n <= 0 THEN 0
    ELSE LET v == pa[center_pos + dir * (n - 1)]
         IN  ExceedCount(pa, center_pos, dir, level, n - 1)
               + (IF FLt(level, FInt(v)) THEN 1 ELSE 0)

\* left_z, right_z: 0.000001 incremented once per exceeding sample
ExceedZ(count) == Fin(count * EpsilonDen + 1, EpsilonDen)

\* left_signal /= left_z
SignalOf(sum, z) == FDiv(FInt(sum), z)

\* the threshold check without the threshold: signal < level
BelowThreshold_NoThreshold(signal, level, threshold) == FLt(signal, level)

\* the threshold check with the comparison turned round: signal > level + threshold
BelowThreshold_Flipped(signal, level, threshold) ==
    FLt(FAdd(level, FInt(threshold)), signal)

\* if(left_signal < left_level + detection_threshold) return 0;
BelowThreshold(signal, level, threshold) == FLt(signal, FAdd(level, FInt(threshold)))

\* 0.7*left_signal + 0.3*left_level
Blend(signal, level) == FAdd(FMul(Fin(7, 10), signal), FMul(Fin(3, 10), level))

\* the loop of lines 102-111 for one side (dir = -1: left, 1: right), from
\* iteration x with the current value start of the side's signal_start
RECURSIVE EdgeWalk(_, _, _, _, _, _, _)
EdgeWalk(pa, center_pos, dir, blend, n, x, start) ==
    IF x >= n THEN start
    ELSE EdgeWalk(pa, center_pos, dir, blend, n, x + 1,
                  IF FLt(FInt(pa[center_pos + dir * x]), blend) /\ start = center_pos
                  THEN center_pos + dir * x ELSE start)

\* if(left_signal_start == center_pos) left_signal_start = center_pos - center_width/2;
SignalStart(walked, center_pos, dir, center_width) ==
    IF walked = center_pos THEN center_pos + dir * (center_width \div 2) ELSE walked

\* freq_power_integr: sum of (frequency_start_hz + px*frequency_step_hz) * power_array[px]
RECURSIVE FreqPowerSum(_, _, _, _, _)
FreqPowerSum(pa, start, step, begin, n) ==
    IF n <= 0 THEN 0
    ELSE FreqPowerSum(pa, start, step, begin, n - 1)
           + (start + (begin + n - 1) * step) * pa[begin + n - 1]

\* 10.0 * log10(pow_integr): pow_integr is 0.00000001 plus the sum of 10^(p/10) over
\* the integrated samples p; kept as the samples it is computed from
PowerDb(pa, begin, n) ==
    [k |-> "dB", s |-> [i \in 1..(IF n > 0 THEN n ELSE 0) |-> pa[begin + i - 1]]]

\* the score with the operands of its subtractions exchanged:
\* 1.0 - left_level / left_signal + 1.0 - right_level / right_signal
Score_Reversed(left_level, left_signal, right_level, right_signal) ==
    FAdd(FSub(FAdd(FSub(FInt(1), FDiv(left_level, left_signal)), FInt(1)),
              FDiv(right_level, right_signal)), FInt(0))

\* float score = left_level / left_signal - 1.0 + right_level / right_signal - 1.0
Score(left_level, left_signal, right_level, right_signal) ==
    FSub(FAdd(FSub(FDiv(left_level, left_signal), FInt(1)),
              FDiv(right_level, right_signal)), FInt(1))

\* the positions and widths apply_detector derives from its arguments, and the
\* number scan_n of iterations of its scanning loops (x < 1 + center_width/2)
detector_geometry(a) ==
    LET center_pos == CenterPos(a.current_frequency_hz, a.frequency_start_hz,
                                a.frequency_step_hz)
        center_width == WidthPoints(a.center_width_kHz, a.frequency_step_hz)
        side_width == WidthPoints(a.side_width_kHz, a.frequency_step_hz)
    IN  [center_pos |-> center_pos, center_width |-> center_width,
         side_width |-> side_width,
         left_begin |-> center_pos - center_width \div 2 - side_width,
         right_begin |-> center_pos + center_width \div 2 + side_width,
         scan_n |-> 1 + center_width \div 2]

\* the three band levels, from the geometry g
detector_levels(pa, g) ==
    [left_level |-> BandMean(pa, g.left_begin, g.side_width),
     right_level |-> BandMean(pa, g.right_begin, g.side_width),
     center_level |-> BandMean(pa, g.center_pos - g.center_width \div 2, g.center_width)]

\* the exceedance counts and averages of the two halves, from g and the levels l
detector_signals(pa, g, l) ==
    [left_z |-> ExceedZ(ExceedCount(pa, g.center_pos, -1, l.center_level, g.scan_n)),
     right_z |-> ExceedZ(ExceedCount(pa, g.center_pos, 1, l.center_level, g.scan_n)),
     left_signal |->
        SignalOf(ExceedSum(pa, g.center_pos, -1, l.center_level, g.scan_n),
                 ExceedZ(ExceedCount(pa, g.center_pos, -1, l.center_level, g.scan_n))),
     right_signal |->
        SignalOf(ExceedSum(pa, g.center_pos, 1, l.center_level, g.scan_n),
                 ExceedZ(ExceedCount(pa, g.center_pos, 1, l.center_level, g.scan_n)))]

\* the edges of the signal, from g, l and the exceedance averages s
detector_edges(pa, g, l, s) ==
    [left_signal_start |->
        SignalStart(EdgeWalk(pa, g.center_pos, -1, Blend(s.left_signal, l.left_level),
                             g.scan_n, 0, g.center_pos),
                    g.center_pos, -1, g.center_width),
     right_signal_start |->
        SignalStart(EdgeWalk(pa, g.center_pos, 1, Blend(s.right_signal, l.right_level),
                             g.scan_n, 0, g.center_pos),
                    g.center_pos, 1, g.center_width)]

\* the sums of the integration loop over [left_signal_start, right_signal_start)
detector_integrals(a, e) ==
    [pa_power_int |->
        SumFrom(a.power_array, e.left_signal_start,
                e.right_signal_start - e.left_signal_start),
     freq_power_integr |->
        FreqPowerSum(a.power_array, a.frequency_start_hz, a.frequency_step_hz,
                     e.left_signal_start, e.right_signal_start - e.left_signal_start)]

\* the indices of power_array each part of apply_detector reads
detector_reads(g, e) ==
    [reads_levels |->
        {g.left_begin + x : x \in 0..(g.side_width - 1)}
          \cup {g.right_begin + x : x \in 0..(g.side_width - 1)}
          \cup {g.center_pos - g.center_width \div 2 + x : x \in 0..(g.center_width - 1)},
     reads_scan |->
        {g.center_pos - x : x \in 0..(g.scan_n - 1)}
          \cup {g.center_pos + x : x \in 0..(g.scan_n - 1)},
     reads_integr |-> e.left_signal_start..(e.right_signal_start - 1)]

\* The locals of apply_detector on arguments a, each as the code computes it, in the
\* order the code computes them: every stage takes the values of the stages before it.
locals_from_edges(a, g, l, s, e) ==
    g @@ l @@ s @@ e @@ detector_integrals(a, e) @@ detector_reads(g, e)

locals_from_signals(a, g, l, s) ==
    locals_from_edges(a, g, l, s, detector_edges(a.power_array, g, l, s))

locals_from_levels(a, g, l) ==
    locals_from_signals(a, g, l, detector_signals(a.power_array, g, l))

locals_from_geometry(a, g) ==
    locals_from_levels(a, g, detector_levels(a.power_array, g))

detector_locals(a) == locals_from_geometry(a, detector_geometry(a))

\* the bandwidth added to what *res_bw holds instead of stored in it
ResBw_Accumulated(left_signal_start, right_signal_start, step) ==
    FAdd(res_bw, FInt((right_signal_start - left_signal_start) * step))

\* *res_bw = (right_signal_start - left_signal_start) * frequency_step_hz
ResBw(left_signal_start, right_signal_start, step) ==
    FInt((right_signal_start - left_signal_start) * step)

\* The return statement apply_detector leaves by when its locals are v: the return
\* value, the line of the return statement, the outputs after the call (out before
\* it) and the indices read.
detector_return(a, out, v) ==
    IF CenterBelowSide(v.center_level, v.left_level, v.right_level)
    THEN [ret |-> FInt(0), line |-> 70,
          res_power |-> FInt(0), res_bw |-> Fin(1, NominalBwDen),
          res_centroid |-> out.res_centroid,
          reads |-> v.reads_levels, locals |-> v]
    ELSE IF BelowThreshold(v.left_signal, v.left_level, a.detection_threshold)
    THEN [ret |-> FInt(0), line |-> 96,
          res_power |-> out.res_power, res_bw |-> out.res_bw,
          res_centroid |-> out.res_centroid,
          reads |-> v.reads_levels \cup v.reads_scan, locals |-> v]
    ELSE IF BelowThreshold(v.right_signal, v.right_level, a.detection_threshold)
    THEN [ret |-> FInt(0), line |-> 97,
          res_power |-> out.res_power, res_bw |-> out.res_bw,
          res_centroid |-> out.res_centroid,
          reads |-> v.reads_levels \cup v.reads_scan, locals |-> v]
    ELSE [ret |-> Score(v.left_level, v.left_signal, v.right_level, v.right_signal),
          line |-> 132,
          res_power |-> PowerDb(a.power_array, v.left_signal_start,
                                v.right_signal_start - v.left_signal_start),
          res_bw |-> ResBw(v.left_signal_start, v.right_signal_start,
                           a.frequency_step_hz),
          res_centroid |-> FDiv(FInt(v.freq_power_integr), FInt(v.pa_power_int)),
          reads |-> v.reads_levels \cup v.reads_scan \cup v.reads_integr,
          locals |-> v]

\* One call of apply_detector on arguments a with the output variables holding out
apply_detector(a, out) == detector_return(a, out, detector_locals(a))

-----------------------------------------------------------------------------
(* The caller of the three-zone detector *)

\* the profiles of the model: widths of at least one sample at the given step
Profiles(step) ==
    {sd \in [center_width_kHz : 1..MaxWindowKHz, side_width_kHz : 1..MaxWindowKHz,
             detection_threshold : 1..MaxThreshold] :
        /\ sd.center_width_kHz + 2 * sd.side_width_kHz <= MaxWindowKHz
        /\ WidthPoints(sd.center_width_kHz, step) >= 1
        /\ WidthPoints(sd.side_width_kHz, step) >= 1}

\* the arguments of a call made at index center_pos of the array
ArgsOf(sd, pa, start, step, cur) ==
    [center_width_kHz |-> sd.center_width_kHz, side_width_kHz |-> sd.side_width_kHz,
     detection_threshold |-> sd.detection_threshold, power_array |-> pa,
     frequency_start_hz |-> start, frequency_step_hz |-> step,
     current_frequency_hz |-> cur]

Args == ArgsOf(detector, power_array, frequency_start_hz, frequency_step_hz,
               current_frequency_hz)

\* number of memory cells from power_array[0] that a call at the middle of a window
\* of get_window_width_points samples can read
MemCells(sd, step) ==
    LET w == get_window_width_points(sd, step)
        top == w \div 2 + WidthPoints(sd.center_width_kHz, step) \div 2
                 + 2 * WidthPoints(sd.side_width_kHz, step)
    IN  IF top > w THEN top ELSE w

\* backgrounds of the synthetic peak windows
PeakBackgrounds == {-13, -12, 1}

\* a window flat at background b but for the center band (the center_width samples
\* the detector averages), which is flat at b + detection_threshold + 10
PeakWindow(sd, step, b) ==
    LET w == get_window_width_points(sd, step)
        cw == WidthPoints(sd.center_width_kHz, step)
        lo == w \div 2 - cw \div 2
    IN  [i \in 0..(MemCells(sd, step) - 1) |->
            IF lo <= i /\ i < lo + cw THEN b + sd.detection_threshold + 10
            ELSE b]

\* the caller's output variables before the first call: not initialised, or set to 0
CallerOutputs ==
    {[res_power |-> Uninit, res_bw |-> Uninit, res_centroid |-> Uninit],
     [res_power |-> FInt(0), res_bw |-> FInt(0), res_centroid |-> FInt(0)]}

NoProfileOld == [single_peak |-> 0]
NoProfile == [center_width_kHz |-> 0]
NoLocals == [center_pos |-> 0]

InitTZ ==
    /\ frequency_start_hz = 0
    /\ frequency_step_hz \in FrequencySteps
    /\ detector \in Profiles(frequency_step_hz)
    /\ detector_old = NoProfileOld
    /\ length = get_window_width_points(detector, frequency_step_hz)
    /\ current_frequency_hz = frequency_start_hz + (length \div 2) * frequency_step_hz
    /\ \/ /\ power_array \in [0..(MemCells(detector, frequency_step_hz) - 1) -> Levels]
          /\ \A i \in DOMAIN power_array : i >= length => power_array[i] \in Beyond
       \/ \E b \in PeakBackgrounds :
             power_array = PeakWindow(detector, frequency_step_hz, b)
    /\ \E out \in CallerOutputs :
          /\ res_power = out.res_power
          /\ res_bw = out.res_bw
          /\ res_centroid = out.res_centroid
    /\ ret = Uninit
    /\ ret_line = 0
    /\ reads = {}
    /\ loc = NoLocals
    /\ calls = 0
    /\ pc = "call"
    /\ NoSink

\* the caller calls apply_detector
ApplyDetector ==
    /\ pc = "call"
    /\ detector # NoProfile
    /\ LET r == apply_detector(Args, [res_power |-> res_power, res_bw |-> res_bw,
                                      res_centroid |-> res_centroid])
       IN  /\ ret' = r.ret
           /\ ret_line' = r.line
           /\ res_power' = r.res_power
           /\ res_bw' = r.res_bw
           /\ res_centroid' = r.res_centroid
           /\ reads' = r.reads
           /\ loc' = r.locals
    /\ calls' = calls + 1
    /\ pc' = "done"
    /\ UNCHANGED <<detector, detector_old, power_array, length, frequency_start_hz,
                   frequency_step_hz, current_frequency_hz>>
    /\ UNCHANGED sink_vars

\* the caller makes the same call again: the same profile, array and frequency
\* arguments, its output variables as the call left them
CallAgain ==
    /\ pc = "done"
    /\ calls < MaxCalls
    /\ pc' = "call"
    /\ UNCHANGED <<detector, detector_old, power_array, length, frequency_start_hz,
                   frequency_step_hz, current_frequency_hz, res_power, res_bw,
                   res_centroid, ret, ret_line, reads, loc, calls>>
    /\ UNCHANGED sink_vars

NextTZ == ApplyDetector \/ CallAgain

SpecTZ == InitTZ /\ [][NextTZ]_vars

-----------------------------------------------------------------------------
(* sSignalDetector_old: the shifted-peak (legacy) detector *)

\* the literal 0.00000001 the out_z counts start from, as 1/OutEpsilonDen
OutEpsilonDen == 100000000

\* the window sizing helper of the legacy profile:
\* (left_shift + 2.1*left_width + right_shift + 2.1*right_width)*1000.0 / step
get_window_width_points_old(sd, step) ==
    Trunc((10 * sd.left_shift_kHz + 21 * sd.left_width_kHz
             + 10 * sd.right_shift_kHz + 21 * sd.right_width_kHz) * 1000, 10 * step)

\* the bounds check without its test of the right band
WindowTooSmall_NoRightTest(left_pos, left_width, right_pos, right_width, center_width, len) ==
    \/ left_pos - 2 * left_width < 0
    \/ 21 * center_width > 10 * len

\* if(left_pos - 2*left_width < 0 || right_pos + 2*right_width >= length
\*    || center_width*2.1 > length)
WindowTooSmall(left_pos, left_width, right_pos, right_width, center_width, len) ==
    \/ left_pos - 2 * left_width < 0
    \/ right_pos + 2 * right_width >= len
    \/ 21 * center_width > 10 * len

\* sum and number of the samples power_array[x], lo <= x < hi, that are > level
RECURSIVE SumAbove(_, _, _, _)
SumAbove(pa, lo, hi, level) ==
    IF hi <= lo THEN 0
    ELSE SumAbove(pa, lo, hi - 1, level)
           + (IF FLt(level, FInt(pa[hi - 1])) THEN pa[hi - 1] ELSE 0)

RECURSIVE CountAbove(_, _, _, _)
CountAbove(pa, lo, hi, level) ==
    IF hi <= lo THEN 0
    ELSE CountAbove(pa, lo, hi - 1, level)
           + (IF FLt(level, FInt(pa[hi - 1])) THEN 1 ELSE 0)

\* sum and number of the samples power_array[x], lo <= x < hi, that are < level
RECURSIVE SumBelow(_, _, _, _)
SumBelow(pa, lo, hi, level) ==
    IF hi <= lo THEN 0
    ELSE SumBelow(pa, lo, hi - 1, level)
           + (IF FLt(FInt(pa[hi - 1]), level) THEN pa[hi - 1] ELSE 0)

RECURSIVE CountBelow(_, _, _, _)
CountBelow(pa, lo, hi, level) ==
    IF hi <= lo THEN 0
    ELSE CountBelow(pa, lo, hi - 1, level)
           + (IF FLt(FInt(pa[hi - 1]), level) THEN 1 ELSE 0)

\* an out_z count: the float 0.00000001 incremented count times.  0.00000001 is
\* below half an ulp of 1.0f, so the first increment gives exactly 1
OutZ(count) == IF count = 0 THEN Fin(1, OutEpsilonDen) ELSE FInt(count)

\* a band's exceedance average: high /= highZ, highZ counted from 0
HighOf(sum, highZ) == FDiv(FInt(sum), FInt(highZ))

\* rel = 1.0 - fabs(relative_power - to_background/center_to_background),
\* then if(rel < 0.01) rel = 0.01
Closeness(relative_power, to_background, center_to_background) ==
    LET rel == FSub(FInt(1), FAbs(FSub(FInt(relative_power),
                                      FDiv(to_background, center_to_background))))
    IN  IF FLt(rel, Fin(1, 100)) THEN Fin(1, 100) ELSE rel

\* freq_penalty_mult
FreqPenalty(center_freq, min_MHz, max_MHz) ==
    IF center_freq > max_MHz * 1000000
    THEN FDiv(FInt(max_MHz * 1000000), FInt(center_freq))
    ELSE IF center_freq < min_MHz * 1000000
    THEN FDiv(FInt(center_freq), FInt(min_MHz * 1000000))
    ELSE FInt(1)

\* cur_level = cur_level * 0.9 + 0.1*power_array[x]
Smooth(cur_level, sample) ==
    FAdd(FMul(cur_level, Fin(9, 10)), FMul(Fin(1, 10), FInt(sample)))

\* the loop of lines 383-389 from iteration x: the value of left_edge after it
RECURSIVE LeftEdgeWalk(_, _, _, _, _)
LeftEdgeWalk(pa, x, cur_level, limit, left_edge) ==
    IF x <= 0 THEN left_edge
    ELSE LET cur == Smooth(cur_level, pa[x])
         IN  IF FLt(cur, limit) THEN x
             ELSE LeftEdgeWalk(pa, x - 1, cur, limit, x)

\* the loop of lines 392-398 from iteration x: the value of right_edge after it
RECURSIVE RightEdgeWalk(_, _, _, _, _, _)
RightEdgeWalk(pa, x, len, cur_level, limit, right_edge) ==
    IF x >= len THEN right_edge
    ELSE LET cur == Smooth(cur_level, pa[x])
         IN  IF FLt(cur, limit) THEN x
             ELSE RightEdgeWalk(pa, x + 1, len, cur, limit, x)

\* the positions and widths process_data derives from the profile (lines 211-221)
old_geometry(a) ==
    LET step == a.frequency_step_hz
        center_pos == a.length \div 2
        center_freq == a.frequency_start_hz + step * center_pos
        left_freq == center_freq - a.left_shift_kHz * 1000
        right_freq == center_freq + a.right_shift_kHz * 1000
    IN  [center_pos |-> center_pos, center_freq |-> center_freq,
         left_pos |-> Trunc(left_freq - a.frequency_start_hz, step),
         right_pos |-> Trunc(right_freq - a.frequency_start_hz, step),
         center_width |-> WidthPoints(a.center_width_kHz, step),
         left_width |-> WidthPoints(a.left_width_kHz, step),
         right_width |-> WidthPoints(a.right_width_kHz, step)]

\* the outside regions [0, lend) and [rbeg, length) and their averages (lines 229-257)
old_outside(a, g) ==
    LET pa == a.power_array
        lend == g.left_pos - g.left_width
        rbeg == g.right_pos + g.right_width
        nl == IF g.left_pos - g.left_width > 0 THEN g.left_pos - g.left_width ELSE 0
        nr == IF a.length > g.right_pos + g.right_width
              THEN a.length - (g.right_pos + g.right_width) ELSE 0
    IN  [lend |-> lend, rbeg |-> rbeg,
         out_average |->
            FDiv(FInt(SumFrom(pa, 0, nl) + SumFrom(pa, rbeg, nr)), OutZ(nl + nr)),
         out_average_left |-> FDiv(FInt(SumFrom(pa, 0, nl)), OutZ(nl)),
         out_average_right |-> FDiv(FInt(SumFrom(pa, rbeg, nr)), OutZ(nr))]

\* the averages of the outside samples below the outside averages o (lines 258-286)
old_outside_low(a, o) ==
    [out_low_average |->
        FDiv(FInt(SumBelow(a.power_array, 0, o.lend, o.out_average)
                    + SumBelow(a.power_array, o.rbeg, a.length, o.out_average)),
             OutZ(CountBelow(a.power_array, 0, o.lend, o.out_average)
                    + CountBelow(a.power_array, o.rbeg, a.length, o.out_average))),
     out_low_average_left |->
        FDiv(FInt(SumBelow(a.power_array, 0, o.lend, o.out_average_left)),
             OutZ(CountBelow(a.power_array, 0, o.lend, o.out_average_left))),
     out_low_average_right |->
        FDiv(FInt(SumBelow(a.power_array, o.rbeg, a.length, o.out_average_right)),
             OutZ(CountBelow(a.power_array, o.rbeg, a.length, o.out_average_right)))]

\* the band means: the side bands only if(!single_peak) (lines 300-304, 313-315,
\* 325-328), the bands being [pos - width, pos + width)
old_band_powers(a, g) ==
    [double |-> a.single_peak = 0,
     lb |-> g.left_pos - g.left_width, lh |-> g.left_pos + g.left_width,
     rb |-> g.right_pos - g.right_width, rh |-> g.right_pos + g.right_width,
     cb |-> g.center_pos - g.center_width, ch |-> g.center_pos + g.center_width,
     left_power |->
        IF a.single_peak = 0
        THEN FDiv(FInt(SumFrom(a.power_array, g.left_pos - g.left_width,
                               2 * g.left_width)),
                  FInt(2 * g.left_width))
        ELSE FInt(0),
     right_power |->
        IF a.single_peak = 0
        THEN FDiv(FInt(SumFrom(a.power_array, g.right_pos - g.right_width,
                               2 * g.right_width)),
                  FInt(2 * g.right_width))
        ELSE FInt(0),
     center_power |->
        FDiv(FInt(SumFrom(a.power_array, g.center_pos - g.center_width,
                          2 * g.center_width)),
             FInt(2 * g.center_width))]

\* the exceedance counts and averages of the bands over their means p
\* (lines 305-311, 316-322, 329-337)
old_band_highs(a, p) ==
    [left_power_highZ |->
        IF p.double THEN CountAbove(a.power_array, p.lb, p.lh, p.left_power) ELSE 0,
     left_power_high |->
        IF p.double
        THEN HighOf(SumAbove(a.power_array, p.lb, p.lh, p.left_power),
                    CountAbove(a.power_array, p.lb, p.lh, p.left_power))
        ELSE FInt(0),
     right_power_highZ |->
        IF p.double THEN CountAbove(a.power_array, p.rb, p.rh, p.right_power) ELSE 0,
     right_power_high |->
        IF p.double
        THEN HighOf(SumAbove(a.power_array, p.rb, p.rh, p.right_power),
                    CountAbove(a.power_array, p.rb, p.rh, p.right_power))
        ELSE FInt(0),
     center_power_highZ |-> CountAbove(a.power_array, p.cb, p.ch, p.center_power),
     center_power_high |->
        HighOf(SumAbove(a.power_array, p.cb, p.ch, p.center_power),
               CountAbove(a.power_array, p.cb, p.ch, p.center_power))]

\* the second exceedance average of the center band, over center_power_high
\* (lines 339-347)
old_center_high_high(a, p, h) ==
    [center_power_high_highZ |->
        CountAbove(a.power_array, p.cb, p.ch, h.center_power_high),
     center_power_high_high |->
        HighOf(SumAbove(a.power_array, p.cb, p.ch, h.center_power_high),
               CountAbove(a.power_array, p.cb, p.ch, h.center_power_high))]

\* the score (lines 350-376)
old_score(a, g, w, p, h) ==
    LET center_to_background == FSub(h.center_power_high, w.out_low_average)
        left_to_background == FSub(h.left_power_high, w.out_low_average)
        right_to_background == FSub(h.right_power_high, w.out_low_average)
    IN  [center_to_background |-> center_to_background,
         detected_score |->
            FMul(IF p.double
                 THEN FMul(FMul(center_to_background,
                                Closeness(a.left_relative_power, left_to_background,
                                          center_to_background)),
                           Closeness(a.right_relative_power, right_to_background,
                                     center_to_background))
                 ELSE center_to_background,
                 FreqPenalty(g.center_freq, a.standard_min_frequency_MHz,
                             a.standard_max_frequency_MHz))]

\* the edges of the bandwidth estimate (lines 381-398)
old_edges(a, g, o, p) ==
    [left_edge |->
        LeftEdgeWalk(a.power_array, g.left_pos, FInt(a.power_array[g.left_pos]),
                     FMul(FAdd(p.left_power, o.out_average), Fin(1, 2)), g.left_pos),
     right_edge |->
        RightEdgeWalk(a.power_array, g.right_pos, a.length,
                      FInt(a.power_array[g.right_pos]),
                      FMul(FAdd(p.right_power, o.out_average), Fin(1, 2)), g.right_pos)]

\* the indices of power_array process_data reads after its bounds check
old_reads(a, g, p, e) ==
    [reads |->
        (0..(a.length - 1))
          \cup (IF p.double THEN (p.lb..(p.lh - 1)) \cup (p.rb..(p.rh - 1)) ELSE {})
          \cup (p.cb..(p.ch - 1))
          \cup (e.left_edge..g.left_pos) \cup (g.right_pos..e.right_edge)]

\* The locals of process_data after its bounds check has passed (lines 229-402), in
\* the order the code computes them: every stage takes the values of the stages
\* before it.
old_locals_from_edges(a, g, o, w, p, h, e) ==
    g @@ o @@ w @@ p @@ h @@ old_center_high_high(a, p, h) @@ old_score(a, g, w, p, h)
      @@ e @@ old_reads(a, g, p, e)

old_locals_from_highs(a, g, o, w, p, h) ==
    old_locals_from_edges(a, g, o, w, p, h, old_edges(a, g, o, p))

old_locals_from_powers(a, g, o, w, p) ==
    old_locals_from_highs(a, g, o, w, p, old_band_highs(a, p))

old_locals_from_outside(a, g, o) ==
    old_locals_from_powers(a, g, o, old_outside_low(a, o), old_band_powers(a, g))

old_locals(a, g) == old_locals_from_outside(a, g, old_outside(a, g))

\* the return of line 403, the locals being v
old_return_ok(a, v) ==
    [ret |-> v.detected_score, line |-> 403,
     res_power |-> v.center_power,
     res_bw |-> FInt((a.frequency_start_hz + a.frequency_step_hz * v.right_edge)
                       - (a.frequency_start_hz + a.frequency_step_hz * v.left_edge)),
     reads |-> v.reads, locals |-> v]

\* The return statement process_data leaves by when its geometry is g: the return
\* value, its line, the outputs after the call (out before it) and the indices read
old_return(a, out, g) ==
    IF WindowTooSmall(g.left_pos, g.left_width, g.right_pos, g.right_width,
                      g.center_width, a.length)
    THEN [ret |-> FInt(-1), line |-> 226,
          res_power |-> out.res_power, res_bw |-> out.res_bw,
          reads |-> 0..(a.length - 1), locals |-> g]
    ELSE old_return_ok(a, old_locals(a, g))

\* One call of process_data on arguments a with the output variables holding out
process_data(a, out) == old_return(a, out, old_geometry(a))

-----------------------------------------------------------------------------
(* The caller of the legacy detector *)

\* longest window of the legacy model
MaxLength == 6

\* power samples (dB) of the windows of the legacy model
LevelsOld == {1, 2}

\* the legacy profiles of the model: band widths of at least one sample, a minimal
\* window of at most MaxLength + 1 samples, and a center band that is at most
\* one sample too wide for the longest window
ProfilesOld(step) ==
    {sd \in [single_peak : {0, 1},
             center_width_kHz : 1..(MaxLength + 1),
             left_shift_kHz : 0..MaxLength, left_width_kHz : 1..MaxLength,
             right_shift_kHz : 0..MaxLength, right_width_kHz : 1..MaxLength,
             left_relative_power : {1}, right_relative_power : {1},
             standard_min_frequency_MHz : {0}, standard_max_frequency_MHz : {1}] :
        /\ WidthPoints(sd.center_width_kHz, step) >= 1
        /\ WidthPoints(sd.left_width_kHz, step) >= 1
        /\ WidthPoints(sd.right_width_kHz, step) >= 1
        /\ get_window_width_points_old(sd, step) <= MaxLength + 1
        /\ 2 * WidthPoints(sd.center_width_kHz, step) <= MaxLength + 1}

\* value of the memory cells that follow the caller's array
BeyondOld == 1

\* the memory from power_array[0]: the len samples of the array and the cells after it
MemoryOld(samples, len) ==
    [i \in 0..(len + 2 * MaxLength + 2) |-> IF i < len THEN samples[i] ELSE BeyondOld]

ArgsOld ==
    [single_peak |-> detector_old.single_peak,
     center_width_kHz |-> detector_old.center_width_kHz,
     left_shift_kHz |-> detector_old.left_shift_kHz,
     left_width_kHz |-> detector_old.left_width_kHz,
     right_shift_kHz |-> detector_old.right_shift_kHz,
     right_width_kHz |-> detector_old.right_width_kHz,
     left_relative_power |-> detector_old.left_relative_power,
     right_relative_power |-> detector_old.right_relative_power,
     standard_min_frequency_MHz |-> detector_old.standard_min_frequency_MHz,
     standard_max_frequency_MHz |-> detector_old.standard_max_frequency_MHz,
     power_array |-> power_array, length |-> length,
     frequency_start_hz |-> frequency_start_hz,
     frequency_step_hz |-> frequency_step_hz]

InitOld ==
    /\ frequency_start_hz = 998000
    /\ frequency_step_hz \in FrequencySteps
    /\ detector_old \in ProfilesOld(frequency_step_hz)
    /\ detector = NoProfile
    /\ length \in 1..MaxLength
    /\ current_frequency_hz = 0
    /\ \E samples \in [0..(length - 1) -> LevelsOld] :
          power_array = MemoryOld(samples, length)
    /\ res_power = Uninit
    /\ res_bw = Uninit
    /\ res_centroid = Uninit
    /\ ret = Uninit
    /\ ret_line = 0
    /\ reads = {}
    /\ loc = NoLocals
    /\ calls = 0
    /\ pc = "call"
    /\ NoSink

\* the caller calls process_data
ProcessData ==
    /\ pc = "call"
    /\ detector_old # NoProfileOld
    /\ LET r == process_data(ArgsOld, [res_power |-> res_power, res_bw |-> res_bw])
       IN  /\ ret' = r.ret
           /\ ret_line' = r.line
           /\ res_power' = r.res_power
           /\ res_bw' = r.res_bw
           /\ reads' = r.reads
           /\ loc' = r.locals
    /\ calls' = calls + 1
    /\ pc' = "done"
    /\ UNCHANGED <<detector, detector_old, power_array, length, frequency_start_hz,
                   frequency_step_hz, current_frequency_hz, res_centroid>>
    /\ UNCHANGED sink_vars

NextOld == ProcessData \/ CallAgain

SpecOld == InitOld /\ [][NextOld]_vars

\* the callers of both detectors
InitBoth == InitTZ \/ InitOld

NextBoth == ApplyDetector \/ ProcessData \/ CallAgain

SpecBoth == InitBoth /\ [][NextBoth]_vars

-----------------------------------------------------------------------------
(* scanner_sink: the averaging sink of gr-scan-monitor *)

\* longest FFT vector of the model
MaxVectorLength == 4

\* largest m_avg_size of the model
MaxAvgSize == 2

\* calls of ProcessVector in a run of the model
MaxVectors == 4

\* the sweeps of the model: start, end and step frequencies (Hz)
Sweeps ==
    {[start |-> 100000, end |-> 102000, step |-> 1000],
     [start |-> 100000, end |-> 102500, step |-> 1000],
     [start |-> 100000, end |-> 101000, step |-> 2000]}

\* the frequencies a sweep requests: m_current_freq + m_step from every
\* m_current_freq < m_end_freq the sweep passes through
SweepFreqs(sw) ==
    {sw.start + k * sw.step : k \in {j \in 1..4 : sw.start + (j - 1) * sw.step < sw.end}}

\* the input vectors of the model, of the values the FFT stage delivers: a ramp,
\* the ramp reversed, and a flat vector
InputVectors(n) ==
    {[i \in 0..(n - 1) |-> i + 1], [i \in 0..(n - 1) |-> n - i], [i \in 0..(n - 1) |-> -1]}

\* a float array of n elements no statement has written yet
Unwritten(n) == [i \in 0..(n - 1) |-> Uninit]

\* ZeroBuffer: writes zeros to m_buffer.  The totals are sums of whole numbers, which
\* float holds exactly; m_buffer holds them as integers.
ZeroBuffer(n) == [i \in 0..(n - 1) |-> 0]

\* m_buffer[i] += input[i] + signal_mod, signal_mod = 0
Accumulate(buffer, input) == [i \in DOMAIN buffer |-> buffer[i] + input[i]]

\* the index of bands the loop of Rearrange writes at iteration i
BandIndex(i, n) == IF i < n \div 2 THEN i + n \div 2 ELSE i - n \div 2

\* the loop of Rearrange from iteration i: acc.bands is bands, acc.freqs is freqs and
\* acc.writes counts the writes of each index of bands.  bandwidth is m_sps, a
\* multiple of 2*m_vector_length in the model, so that samplewidth and bandwidth/2.0
\* are whole numbers.
RECURSIVE RearrangeFrom(_, _, _, _, _, _, _)
RearrangeFrom(buffer, n, avg_size, centre, bandwidth, i, acc) ==
    IF i >= n THEN acc
    ELSE RearrangeFrom(buffer, n, avg_size, centre, bandwidth, i + 1,
            [bands |-> [acc.bands EXCEPT ![BandIndex(i, n)] =
                            FDiv(FInt(buffer[i]), FInt(avg_size))],
             freqs |-> [acc.freqs EXCEPT ![i] =
                            centre + i * (bandwidth \div n) - bandwidth \div 2],
             writes |-> [acc.writes EXCEPT ![BandIndex(i, n)] = @ + 1]])

\* Rearrange(bands0, freqs, m_current_freq, m_sps) on the arrays ProcessVector declares
Rearrange(buffer, n, avg_size, centre, bandwidth) ==
    RearrangeFrom(buffer, n, avg_size, centre, bandwidth, 0,
                  [bands |-> Unwritten(n), freqs |-> [i \in 0..(n - 1) |-> 0],
                   writes |-> [i \in 0..(n - 1) |-> 0]])

\* m_source->set_center_freq(freq): the frequency the source is tuned to is within
\* 100 Hz of freq exactly when freq is one the source can be tuned to
TuneSucceeds(freq, can) == freq \in can

\* the loop of lines 137-149 from m_current_freq = cur, reqs the frequencies already
\* requested: the final m_current_freq and all the frequencies requested
RECURSIVE Retune(_, _, _, _, _, _)
Retune(cur, start, end, step, can, reqs) ==
    IF TuneSucceeds((IF cur >= end THEN start ELSE cur) + step, can)
    THEN [freq |-> (IF cur >= end THEN start ELSE cur) + step,
          reqs |-> Append(reqs, (IF cur >= end THEN start ELSE cur) + step)]
    ELSE Retune((IF cur >= end THEN start ELSE cur) + step, start, end, step, can,
                Append(reqs, (IF cur >= end THEN start ELSE cur) + step))

\* the constructor: a scanner_sink right after construction
InitSink ==
    /\ m_vector_length \in 1..MaxVectorLength
    /\ m_avg_size \in 1..MaxAvgSize
    /\ \E sw \in Sweeps :
          /\ m_start_freq = sw.start
          /\ m_end_freq = sw.end
          /\ m_step = sw.step
          /\ tunable \in (SUBSET SweepFreqs(sw)) \ {{}}
    /\ m_sps = 2000 * m_vector_length
    /\ m_current_freq = m_start_freq
    /\ m_count = 0
    /\ m_wait_count = 0
    /\ m_buffer = ZeroBuffer(m_vector_length)
    /\ requested = <<>>
    /\ shm_count = 0
    /\ shm_freqs = <<>>
    /\ shm_bands = <<>>
    /\ bands_writes = <<>>
    /\ vectors = 0
    /\ cycle = <<>>
    /\ published_cycle = <<>>
    /\ detector = NoProfile /\ detector_old = NoProfileOld
    /\ power_array = <<>> /\ length = 0
    /\ frequency_start_hz = 0 /\ frequency_step_hz = 0 /\ current_frequency_hz = 0
    /\ res_power = Uninit /\ res_bw = Uninit /\ res_centroid = Uninit
    /\ ret = Uninit /\ ret_line = 0 /\ reads = {} /\ loc = NoLocals /\ calls = 0
    /\ pc = "sink"

\* ProcessVector(input) when m_count + 1 < m_avg_size: the return of line 120
ProcessVectorAccumulate(input) ==
    /\ m_count + 1 < m_avg_size
    /\ m_buffer' = Accumulate(m_buffer, input)
    /\ m_count' = m_count + 1
    /\ cycle' = Append(cycle, input)
    /\ requested' = <<>>
    /\ UNCHANGED <<m_wait_count, m_current_freq, shm_count, shm_freqs, shm_bands,
                   bands_writes, published_cycle>>

\* ProcessVector(input) when the average is complete: Rearrange, PrintSignals, the
\* reset of the totals and the move to the next frequency (lines 123-151)
ProcessVectorPublish(input) ==
    /\ ~(m_count + 1 < m_avg_size)
    /\ \E r \in {Rearrange(Accumulate(m_buffer, input), m_vector_length, m_avg_size,
                           m_current_freq, m_sps)} :
          /\ shm_freqs' = r.freqs
          /\ shm_bands' = r.bands
          /\ bands_writes' = r.writes
    /\ shm_count' = shm_count + 1
    /\ published_cycle' = Append(cycle, input)
    /\ cycle' = <<>>
    /\ m_count' = 0
    /\ m_buffer' = ZeroBuffer(m_vector_length)
    /\ \E t \in {Retune(m_current_freq, m_start_freq, m_end_freq, m_step, tunable, <<>>)} :
          /\ m_current_freq' = t.freq
          /\ requested' = t.reqs
    /\ m_wait_count' = 0

\* general_work hands one input vector to ProcessVector
ProcessVector ==
    /\ pc = "sink"
    /\ vectors < MaxVectors
    /\ \E input \in InputVectors(m_vector_length) :
          ProcessVectorAccumulate(input) \/ ProcessVectorPublish(input)
    /\ vectors' = vectors + 1
    /\ UNCHANGED <<m_vector_length, m_avg_size, m_step, m_start_freq, m_end_freq, m_sps,
                   tunable, pc>>
    /\ UNCHANGED <<detector, detector_old, power_array, length, frequency_start_hz,
                   frequency_step_hz, current_frequency_hz, res_power, res_bw,
                   res_centroid, ret, ret_line, reads, loc, calls>>

NextSink == ProcessVector

SpecSink == InitSink /\ [][NextSink]_vars

-----------------------------------------------------------------------------
(* Properties of the three-zone detector *)

Threshold == FInt(detector.detection_threshold)

Outputs == [res_power |-> res_power, res_bw |-> res_bw, res_centroid |-> res_centroid]

\* the arguments of the call, with another detection threshold in the profile
ArgsWithThreshold(t) == [Args EXCEPT !.detection_threshold = t]

\* the indices of the center band the detector averages
CenterBand == {i \in DOMAIN power_array :
                 /\ loc.center_pos - loc.center_width \div 2 <= i
                 /\ i < loc.center_pos - loc.center_width \div 2 + loc.center_width}

\* C1: whenever apply_detector returns its computed score (the return of line 132),
\* the center level is at least both side levels and both exceedance averages are at
\* least their side level plus the detection threshold.
C1_ScoreImpliesConditions ==
    (pc = "done" /\ ret_line = 132) =>
        /\ FGe(loc.center_level, loc.left_level)
        /\ FGe(loc.center_level, loc.right_level)
        /\ FGe(loc.left_signal, FAdd(loc.left_level, Threshold))
        /\ FGe(loc.right_signal, FAdd(loc.right_level, Threshold))

\* a call that returned a finite computed score, some scanned sample exceeding the
\* center level on each side
C1_Witness ==
    /\ pc = "done" /\ ret_line = 132 /\ IsFin(ret)
    /\ ~IsZero(loc.left_signal) /\ ~IsZero(loc.right_signal)

\* C2: with detection_threshold > 0, a window whose samples all have one value
\* (the array and the cells the call reads after it) gives score 0.
C2_FlatWindowScoresZero ==
    (/\ pc = "done"
     /\ detector.detection_threshold > 0
     /\ \A i, j \in DOMAIN power_array : power_array[i] = power_array[j])
        => IsZero(ret)

\* C3: on a synthetic peak window (flat background b, center band flat at
\* b + detection_threshold + 10) the score is > 0, the bandwidth is within two
\* frequency steps of center_width * frequency_step and the centroid within one
\* step of the midpoint frequency of the center band.
C3_CleanPeakDetected ==
    (/\ pc = "done"
     /\ \E b \in PeakBackgrounds : power_array = PeakWindow(detector, frequency_step_hz, b))
        => LET step == frequency_step_hz
               lo == loc.center_pos - loc.center_width \div 2
               \* twice the midpoint frequency of the band lo..lo+center_width-1
               mid2 == 2 * frequency_start_hz + (2 * lo + loc.center_width - 1) * step
           IN  /\ FLt(FInt(0), ret)
               /\ FGe(FInt(2 * step), FAbs(FSub(res_bw, FInt(loc.center_width * step))))
               /\ FGe(FInt(step), FAbs(FSub(res_centroid, Fin(mid2, 2))))

\* C4: a window flat at a background b whose center band is raised to a value v
\* with b < v < b + detection_threshold gives score 0.
C4_BelowThresholdBumpRejected ==
    (/\ pc = "done"
     /\ \E b, v \in Levels :
           /\ b < v /\ v < b + detector.detection_threshold
           /\ \A i \in DOMAIN power_array :
                 power_array[i] = IF i \in CenterBand THEN v ELSE b)
        => IsZero(ret)

\* C5: if the call returned score 0, the same call with any larger detection
\* threshold in the profile does not return a positive score.
C5_MonotonicRejection ==
    (pc = "done" /\ IsZero(ret)) =>
        \A t \in (detector.detection_threshold + 1)..(MaxThreshold + 1) :
            ~FLt(FInt(0), apply_detector(ArgsWithThreshold(t), Outputs).ret)

\* a call rejected on a flank by its threshold that a lower threshold lets through,
\* and that stays rejected with a larger one
C5_Witness ==
    /\ pc = "done" /\ ret_line \in {96, 97}
    /\ \E t \in 1..(detector.detection_threshold - 1) :
          apply_detector(ArgsWithThreshold(t), Outputs).line = 132
    /\ IsZero(apply_detector(ArgsWithThreshold(detector.detection_threshold + 1),
                             Outputs).ret)

\* C6: every index read lies in [center_pos - center_width/2 - side_width,
\* center_pos + center_width/2 + side_width), and for a window of exactly
\* get_window_width_points samples tested at its middle index every index read is
\* in 0..length-1.
C6_ReadsInRange ==
    pc = "done" =>
        /\ reads \subseteq
             (loc.center_pos - loc.center_width \div 2 - loc.side_width)
               ..(loc.center_pos + loc.center_width \div 2 + loc.side_width - 1)
        /\ (/\ length = get_window_width_points(detector, frequency_step_hz)
            /\ loc.center_pos = length \div 2)
              => reads \subseteq 0..(length - 1)

\* C8: with center_width >= 1, side_width >= 1 and all reads in bounds, when the
\* score is computed left_signal and right_signal are non-zero, and so is the sum
\* of the dB samples the centroid is divided by.
C8_NoZeroDivisor ==
    (/\ pc = "done" /\ ret_line = 132
     /\ loc.center_width >= 1 /\ loc.side_width >= 1
     /\ reads \subseteq 0..(length - 1))
        => /\ ~IsZero(loc.left_signal)
           /\ ~IsZero(loc.right_signal)
           /\ loc.pa_power_int # 0

\* C10: every return of score 0 that is a non-detection (lines 70, 96, 97) leaves
\* power = 0 and bandwidth = 0.0001 in the outputs.
C10_RejectionOutputs ==
    (pc = "done" /\ ret_line \in {70, 96, 97}) =>
        /\ res_power = FInt(0)
        /\ res_bw = Fin(1, NominalBwDen)

-----------------------------------------------------------------------------
(* Properties of the legacy detector *)

\* C7: process_data called with a window of fewer than get_window_width_points
\* samples returns the not-applicable value -1.
C7_SmallWindowNotApplicable ==
    (/\ pc = "done"
     /\ length < get_window_width_points_old(detector_old, frequency_step_hz))
        => (ret_line = 226 /\ ret = FInt(-1))

\* C9: once the bounds check has passed, with all band widths >= 1 sample, every
\* exceedance count that is divided by and the divisor center_to_background are
\* non-zero.
C9_NoZeroDivisorOld ==
    (/\ pc = "done" /\ ret_line = 403
     /\ loc.center_width >= 1 /\ loc.left_width >= 1 /\ loc.right_width >= 1)
        => /\ detector_old.single_peak = 0 =>
                (loc.left_power_highZ # 0 /\ loc.right_power_highZ # 0)
           /\ loc.center_power_highZ # 0
           /\ loc.center_power_high_highZ # 0
           /\ ~IsZero(loc.center_to_background)

-----------------------------------------------------------------------------
(* The score of a detection *)

\* a term level/signal - 1 of the score
ScoreTerm(level, signal) == FSub(FDiv(level, signal), FInt(1))

\* C11 as claimed: whenever apply_detector reports a detection (the return of
\* line 132) with detection_threshold > 0, both score terms are <= 0 and so is the
\* returned score, for power values of any sign.
C11_ScoreNeverPositive ==
    (pc = "done" /\ ret_line = 132 /\ detector.detection_threshold > 0) =>
        /\ FGe(FInt(0), ScoreTerm(loc.left_level, loc.left_signal))
        /\ FGe(FInt(0), ScoreTerm(loc.right_level, loc.right_signal))
        /\ FGe(FInt(0), ret)

\* C11 amended: whenever apply_detector reports a detection with
\* detection_threshold > 0 and both exceedance averages left_signal, right_signal
\* are >= 0, both score terms are <= 0 and so is the returned score.
C11_ScoreNotPositiveForSignalsNotNegative ==
    (/\ pc = "done" /\ ret_line = 132 /\ detector.detection_threshold > 0
     /\ FGe(loc.left_signal, FInt(0)) /\ FGe(loc.right_signal, FInt(0)))
        => /\ FGe(FInt(0), ScoreTerm(loc.left_level, loc.left_signal))
           /\ FGe(FInt(0), ScoreTerm(loc.right_level, loc.right_signal))
           /\ FGe(FInt(0), ret)

\* a detection with both exceedance averages above 0 and a finite score
C11_Witness ==
    /\ pc = "done" /\ ret_line = 132 /\ detector.detection_threshold > 0
    /\ FLt(FInt(0), loc.left_signal) /\ FLt(FInt(0), loc.right_signal)
    /\ IsFin(ret)

-----------------------------------------------------------------------------
(* Two calls in succession *)

\* C12: a second call of apply_detector, or of process_data, made after a first with
\* the same profile, array and frequency arguments and the output variables as the
\* first call left them, returns what the first returned and leaves in the outputs
\* what the first left, and changes neither the profile nor the samples of the array.
C12_SecondCallSameResults ==
    [][(pc = "call" /\ ret_line # 0 /\ pc' = "done") =>
          /\ ret' = ret
          /\ res_power' = res_power /\ res_bw' = res_bw /\ res_centroid' = res_centroid
          /\ detector' = detector /\ detector_old' = detector_old
          /\ \A i \in 0..(length - 1) : power_array'[i] = power_array[i]]_vars

\* a second call of apply_detector that reported a detection of a non-zero bandwidth,
\* and a second call of process_data that returned a finite score
C12_Witness ==
    /\ pc = "done" /\ calls = 2
    /\ \/ ret_line = 132 /\ IsFin(res_bw) /\ ~IsZero(res_bw)
       \/ ret_line = 403 /\ IsFin(ret)

-----------------------------------------------------------------------------
(* Properties of the scanner sink *)

\* the total of bin i over the input vectors cyc
RECURSIVE BinTotal(_, _)
BinTotal(cyc, i) == IF cyc = <<>> THEN 0 ELSE Head(cyc)[i] + BinTotal(Tail(cyc), i)

\* the input bin published as bin j: the rotation by half the vector length
SourceBin(j, n) == (j + n \div 2) % n

\* C13: with m_avg_size >= 1 a spectrum has been published once for every
\* m_avg_size calls of ProcessVector made, never earlier; every published bin is the
\* total of its input bin over the m_avg_size vectors of the published cycle divided
\* by m_avg_size; and after a publication m_count is 0 and m_buffer is all zeros.
C13_PublishedOncePerCycle ==
    (pc = "sink" /\ m_avg_size >= 1) =>
        /\ shm_count = vectors \div m_avg_size
        /\ shm_count > 0 =>
              /\ Len(published_cycle) = m_avg_size
              /\ \A j \in 0..(m_vector_length - 1) :
                    shm_bands[j] =
                       FDiv(FInt(BinTotal(published_cycle, SourceBin(j, m_vector_length))),
                            FInt(m_avg_size))
        /\ (vectors > 0 /\ vectors % m_avg_size = 0) =>
              /\ m_count = 0
              /\ \A i \in 0..(m_vector_length - 1) : m_buffer[i] = 0

\* C15: when an averaging cycle completes with m_current_freq >= m_end_freq, the
\* next frequency requested from the source (set_center_freq) is m_start_freq.
C15_SweepRestartsAtStart ==
    [][(pc = "sink" /\ shm_count' = shm_count + 1 /\ m_current_freq >= m_end_freq) =>
          (requested' # <<>> /\ Head(requested') = m_start_freq)]_vars

\* C18: for every vector length, Rearrange writes each index 0..N-1 of bands exactly
\* once, and bands is the averaged buffer rotated by half its length.
C18_RearrangeIsPermutation ==
    (pc = "sink" /\ shm_count > 0) =>
        \A j \in 0..(m_vector_length - 1) :
            /\ bands_writes[j] = 1
            /\ shm_bands[j] =
                  FDiv(FInt(BinTotal(published_cycle, SourceBin(j, m_vector_length))),
                       FInt(m_avg_size))

-----------------------------------------------------------------------------
(* The edges and the centroid of a detection *)

\* the offsets 0..center_width/2 from the center index, on the side dir, whose
\* sample is below the blend 0.7*signal + 0.3*level of that side
CrossingOffsets(dir, signal, level) ==
    {x \in 0..(loc.center_width \div 2) :
        FLt(FInt(power_array[loc.center_pos + dir * x]), Blend(signal, level))}

\* the least element of a non-empty set of offsets
MinOffset(X) == CHOOSE x \in X : \A y \in X : x <= y

\* the edge of the side dir as claimed: the first crossing, the center sample
\* included, and center_pos + dir * center_width/2 if there is none
ClaimedEdge(dir, signal, level) ==
    IF CrossingOffsets(dir, signal, level) = {}
    THEN loc.center_pos + dir * (loc.center_width \div 2)
    ELSE loc.center_pos + dir * MinOffset(CrossingOffsets(dir, signal, level))

\* C14: when apply_detector reports a detection, each side's edge is the first
\* index, walking outward from the center index over offsets 0..center_width/2
\* (offset 0 included), whose sample is below 0.7*signal + 0.3*level of that side,
\* and center_pos -/+ center_width/2 only if no scanned sample is below it.
C14_EdgeIsFirstCrossing ==
    (pc = "done" /\ ret_line = 132) =>
        /\ loc.left_signal_start = ClaimedEdge(-1, loc.left_signal, loc.left_level)
        /\ loc.right_signal_start = ClaimedEdge(1, loc.right_signal, loc.right_level)

-----------------------------------------------------------------------------
(* The reads of the legacy detector *)

\* C16: whenever process_data passes its bounds check (the return of line 403), for
\* a profile with non-negative shifts and band widths of at least one sample, every
\* index of power_array it reads lies in 0..length-1.
C16_ReadsInsideArray ==
    (/\ pc = "done" /\ ret_line = 403
     /\ detector_old.left_shift_kHz >= 0 /\ detector_old.right_shift_kHz >= 0
     /\ loc.center_width >= 1 /\ loc.left_width >= 1 /\ loc.right_width >= 1)
        => reads \subseteq 0..(length - 1)

\* a double-peak call that passed the bounds check with a shifted left band, and
\* whose right edge walk read the last sample of the array
C16_Witness ==
    /\ pc = "done" /\ ret_line = 403
    /\ detector_old.single_peak = 0
    /\ loc.left_pos < loc.center_pos
    /\ loc.center_width >= 1 /\ loc.left_width >= 1 /\ loc.right_width >= 1
    /\ loc.right_edge = length - 1

-----------------------------------------------------------------------------
(* The centroid of a detection *)

\* the frequency of the array index px: frequency_start_hz + px * frequency_step_hz
FrequencyOf(px) == frequency_start_hz + px * frequency_step_hz

\* C17: whenever apply_detector reports a centroid (the return of line 132), it lies
\* inside the edge-to-edge interval: frequency(left_signal_start) <= centroid <=
\* frequency(right_signal_start - 1), for dB samples of any sign.
C17_CentroidInsideInterval ==
    (pc = "done" /\ ret_line = 132) =>
        /\ FGe(res_centroid, FInt(FrequencyOf(loc.left_signal_start)))
        /\ FGe(FInt(FrequencyOf(loc.right_signal_start - 1)), res_centroid)

====
